---- MODULE Spec2Model ----
(***************************************************************************)
(* A model of AssetService (src/src/services/assetService.ts): resolution  *)
(* of an asset's format, the load / validate / save pipeline of the label  *)
(* and generator documents, and the tag delete / rename pass.              *)
(*                                                                         *)
(* JavaScript values are records tagged by k ("undefined", "null",         *)
(* "string", "array", "object"); a stored file is a record tagged by t     *)
(* ("missing", "garbage" for text that is no JSON, "json" for the text of  *)
(* a JSON value).  A try block is modelled by the value or the exception   *)
(* it ends with, so that what a catch absorbs is explicit.                 *)
(***************************************************************************)
EXTENDS Integers, Sequences, FiniteSets, TLC

VARIABLES
    files,      \* the storage backend: file name -> stored text
    project,    \* project.assets: asset key -> IAsset
    blobs,      \* the bytes behind an asset path, as fetch() returns them
    call,       \* the operation that ran last, with its arguments
    outcome,    \* how it ended: the value returned, or the exception thrown
    loaded,     \* the metadata getAssetMetadata built during that operation
    toasts,     \* the notifications it raised, in order
    storageOps, \* the write and delete calls it issued to the backend, in order
    tasks       \* the callback of each asset in a pass that is under way

vars == <<files, project, blobs, call, outcome, loaded, toasts, storageOps, tasks>>

---------------------------------------------------------------------------
(* Bounds of the model *)

\* most labels in a stored label document
MaxLabels == 2
\* most value entries in a stored label document
MaxValues == 2
\* most bounding boxes in a stored label document
MaxBoxes == 2

---------------------------------------------------------------------------
(* JavaScript values *)

Undefined == [k |-> "undefined"]
Null == [k |-> "null"]
Str(s) == [k |-> "string", s |-> s]
\* a string given by its pieces of text, as asset names are
Text(pieces) == [k |-> "text", s |-> pieces]
Arr(items) == [k |-> "array", items |-> items]

\* JavaScript truthiness of a modelled value
Truthy(v) ==
    CASE v.k = "undefined" -> FALSE
      [] v.k = "null" -> FALSE
      [] v.k = "string" -> v.s # ""
      [] v.k = "text" -> v.s # <<>>
      [] OTHER -> TRUE

\* String.prototype.trim on the label names of the model
Trim(s) == IF s \in {"", " ", "  "} THEN "" ELSE s

SeqToSet(s) == {s[i] : i \in 1..Len(s)}

RECURSIVE MapSeq(_, _)
MapSeq(F(_), s) == IF s = <<>> THEN <<>> ELSE <<F(Head(s))>> \o MapSeq(F, Tail(s))

RECURSIVE FilterSeq(_, _)
FilterSeq(P(_), s) ==
    IF s = <<>> THEN <<>>
    ELSE (IF P(Head(s)) THEN <<Head(s)>> ELSE <<>>) \o FilterSeq(P, Tail(s))

\* Array.prototype.find: the first element satisfying P, or undefined
FindIndex(P(_), s) ==
    IF \E i \in 1..Len(s) : P(s[i])
    THEN CHOOSE i \in 1..Len(s) : P(s[i]) /\ \A j \in 1..(i - 1) : ~P(s[j])
    ELSE 0

---------------------------------------------------------------------------
(* Stored text and JSON *)

MissingFile == [t |-> "missing"]
Garbage == [t |-> "garbage"]

\* JSON.stringify(value, null, 4)
JSONstringify(v) == [t |-> "json", v |-> v]

\* JSON.parse: the parsed value, or a SyntaxError
JSONparse(text) ==
    IF text.t = "json" THEN [exc |-> "none", val |-> text.v]
    ELSE [exc |-> "SyntaxError", val |-> Undefined]

\* storageProvider.readText(name, true)
readText(store, name) ==
    IF store[name].t = "missing" THEN [exc |-> "Error", text |-> MissingFile]
    ELSE [exc |-> "none", text |-> store[name]]

---------------------------------------------------------------------------
(* Label data *)

LabelData(document, labels) ==
    [k |-> "object", document |-> document, labels |-> labels]

Toast(level, msg) == [level |-> level, msg |-> msg]

\* Array.prototype.containsDuplicates(keyOf)
containsDuplicates(keys) ==
    \E i, j \in 1..Len(keys) : i < j /\ keys[i] = keys[j]

\* a hash that leaves the page out
BoxHashWithoutPage(page, box) == box

\* hash = [valueObj.page, ...box].join()
BoxHash(page, box) == <<page>> \o box

\* for (const box of valueObj.boundingBoxes): the first box already hashed ends the
\* scan with duplicateBox
RECURSIVE ScanBoxes(_, _, _)
ScanBoxes(page, boxes, labelHash) ==
    IF boxes = <<>> THEN [err |-> "none", labelHash |-> labelHash]
    ELSE IF BoxHash(page, Head(boxes)) \in labelHash
         THEN [err |-> "duplicateBoxInLabelFile", labelHash |-> labelHash]
         ELSE ScanBoxes(page, Tail(boxes), labelHash \cup {BoxHash(page, Head(boxes))})

\* for (const valueObj of label.value): the page check, then the boxes of the entry
RECURSIVE ScanValues(_, _, _)
ScanValues(values, pageSet, labelHash) ==
    IF values = <<>> THEN [err |-> "none", labelHash |-> labelHash]
    ELSE IF pageSet # {} /\ Head(values).page \notin pageSet
         THEN [err |-> "sameLabelInDifferentPageError", labelHash |-> labelHash]
         ELSE LET b == ScanBoxes(Head(values).page, Head(values).boundingBoxes, labelHash)
              IN  IF b.err # "none" THEN b
                  ELSE ScanValues(Tail(values), pageSet \cup {Head(values).page},
                                  b.labelHash)

\* for (const label of labelData.labels): a fresh pageSet per label, one labelHash
RECURSIVE ScanLabels(_, _)
ScanLabels(labels, labelHash) ==
    IF labels = <<>> THEN [err |-> "none", labelHash |-> labelHash]
    ELSE LET v == ScanValues(Head(labels).value, {}, labelHash)
         IN  IF v.err # "none" THEN v ELSE ScanLabels(Tail(labels), v.labelHash)

LabelOf(f) == f.label

\* The try block of getLabelDataFromJSON: the exception it ends with ("none" when it
\* returns labelData) and the notifications raised on the way
LabelTry(store, labelFileName) ==
    LET r == readText(store, labelFileName)
        p == JSONparse(r.text)
        labelData == p.val
    IN  IF r.exc # "none" THEN [exc |-> "Error", val |-> Null, toasts |-> <<>>]
        ELSE IF p.exc # "none" THEN [exc |-> "SyntaxError", val |-> Null, toasts |-> <<>>]
        ELSE IF labelData.k # "object"
             THEN [exc |-> "TypeError", val |-> Null, toasts |-> <<>>]
        ELSE IF ~Truthy(labelData.document) \/ ~Truthy(labelData.labels)
             THEN [exc |-> "Error", val |-> Null,
                   toasts |-> <<Toast("error", "missingRequiredFieldInLabelFile")>>]
        ELSE IF Len(labelData.labels.items) = 0
             THEN [exc |-> "Error", val |-> Null,
                   toasts |-> <<Toast("info", "noLabelInLabelFile")>>]
        ELSE IF \E i \in 1..Len(labelData.labels.items) :
                    Trim(labelData.labels.items[i].label) = ""
             THEN [exc |-> "Error", val |-> Null,
                   toasts |-> <<Toast("error", "emptyName")>>]
        ELSE IF containsDuplicates(MapSeq(LabelOf, labelData.labels.items))
             THEN [exc |-> "Error", val |-> Null,
                   toasts |-> <<Toast("error", "duplicateFieldKeyInLabelsFile")>>]
        ELSE LET s == ScanLabels(labelData.labels.items, {})
             IN  IF s.err # "none"
                 THEN [exc |-> "Error", val |-> Null, toasts |-> <<Toast("error", s.err)>>]
                 ELSE [exc |-> "none", val |-> labelData,
                       toasts |-> <<Toast("dismiss", "")>>]

---------------------------------------------------------------------------
(* Assets and file names *)

NotVisited == "NotVisited"
Visited == "Visited"
Tagged == "Tagged"
AssetState == {NotVisited, Visited, Tagged}

\* constants.labelFileExtension and constants.generatorFileExtension
labelFileExtension == "<labelFileExtension>"
generatorFileExtension == "<generatorFileExtension>"

\* An asset name is a sequence of pieces of text; "%2F" and "%20" are the escape
\* sequences of "/" and " ".
DecodePiece(p) ==
    CASE p = "%2F" -> "/"
      [] p = "%20" -> " "
      [] OTHER -> p

\* decodeURIComponent
decodeURIComponent(name) == [i \in 1..Len(name) |-> DecodePiece(name[i])]

\* name.split("/").pop()
RECURSIVE LastSegment(_)
LastSegment(name) ==
    IF \E i \in 1..Len(name) : name[i] = "/"
    THEN LastSegment(Tail(name))
    ELSE name

getLabelFilename(asset) == decodeURIComponent(asset.name \o <<labelFileExtension>>)
getGeneratorFilename(asset) == decodeURIComponent(asset.name \o <<generatorFileExtension>>)

emptyLabelData(assetName) ==
    LabelData(Text(LastSegment(decodeURIComponent(assetName))), Arr(<<>>))

\* a catch that handles the SyntaxError alone and throws every other exception on
getLabelDataHandlingSyntaxErrorOnly(store, labelFileName, asset) ==
    LET t == LabelTry(store, labelFileName)
    IN  CASE t.exc = "none" -> [exc |-> "none", val |-> t.val, toasts |-> t.toasts]
          [] t.exc = "SyntaxError" ->
                [exc |-> "none", val |-> Null,
                 toasts |-> t.toasts \o <<Toast("error", "invalidJSONFormat")>>]
          [] OTHER ->
                [exc |-> t.exc, val |-> Null, toasts |-> t.toasts]

\* getLabelDataFromJSON: the try block, and the catch that turns a SyntaxError into
\* null and every other exception into empty label data
getLabelDataFromJSON(store, labelFileName, asset) ==
    LET t == LabelTry(store, labelFileName)
    IN  CASE t.exc = "none" -> [exc |-> "none", val |-> t.val, toasts |-> t.toasts]
          [] t.exc = "SyntaxError" ->
                [exc |-> "none", val |-> Null,
                 toasts |-> t.toasts \o <<Toast("error", "invalidJSONFormat")>>]
          [] OTHER ->
                [exc |-> "none", val |-> emptyLabelData(asset.name), toasts |-> t.toasts]

---------------------------------------------------------------------------
(* Generator data *)

Tag(name, color) == [k |-> "object", name |-> name, color |-> color]
Generator(tag, name, color) == [k |-> "object", tag |-> tag, name |-> name, color |-> color]
Region(tags) == [tags |-> tags]

\* generateCount of the default metadata shell
DefaultGenerateCount == 40
GeneratorSettings(n) == [k |-> "object", generateCount |-> n]

\* A parsed generator document, a Partial<IAssetMetadata>: the keys it carries; a key
\* that is absent is Undefined
GeneratorData(generators, generatorSettings, regions) ==
    [k |-> "object", generators |-> generators,
     generatorSettings |-> generatorSettings, regions |-> regions]

EmptyPartial == GeneratorData(Undefined, Undefined, Undefined)

\* "Hack to convert from old format": a generator without tag gets one made of its
\* legacy fields
ConvertLegacy(g) ==
    IF ~Truthy(g.tag) THEN [g EXCEPT !.tag = Tag(g.name, g.color)] ELSE g

\* The try block of getGeneratorDataFromJSON
GeneratorTry(store, filename) ==
    LET r == readText(store, filename)
        p == JSONparse(r.text)
        generatorData == p.val
    IN  IF r.exc # "none" THEN [exc |-> "Error", val |-> EmptyPartial, toasts |-> <<>>]
        ELSE IF p.exc # "none"
             THEN [exc |-> "SyntaxError", val |-> EmptyPartial, toasts |-> <<>>]
        ELSE IF generatorData.k # "object"
             THEN [exc |-> "TypeError", val |-> EmptyPartial, toasts |-> <<>>]
        ELSE IF ~Truthy(generatorData.generators) \/ ~Truthy(generatorData.generatorSettings)
             THEN [exc |-> "Error", val |-> EmptyPartial,
                   toasts |-> <<Toast("error", "missingRequiredFieldInLabelFile")>>]
        ELSE IF \E i \in 1..Len(generatorData.generators.items) :
                    generatorData.generators.items[i].k # "object"
             THEN [exc |-> "TypeError", val |-> EmptyPartial, toasts |-> <<>>]
        ELSE [exc |-> "none",
              val |-> [generatorData EXCEPT
                          !.generators = Arr(MapSeq(ConvertLegacy, generatorData.generators.items))],
              toasts |-> <<Toast("dismiss", "")>>]

\* getGeneratorDataFromJSON: every exception of the try block ends in {}
getGeneratorDataFromJSON(store, filename) ==
    LET t == GeneratorTry(store, filename)
    IN  CASE t.exc = "none" -> [exc |-> "none", val |-> t.val, toasts |-> t.toasts]
          [] t.exc = "SyntaxError" ->
                [exc |-> "none", val |-> EmptyPartial,
                 toasts |-> t.toasts \o <<Toast("error", "invalidJSONFormat")>>]
          [] OTHER -> [exc |-> "none", val |-> EmptyPartial, toasts |-> t.toasts]

---------------------------------------------------------------------------
(* Asset metadata *)

AssetMetadata(asset, regions, generators, generatorSettings, labelData) ==
    [asset |-> asset, regions |-> regions, generators |-> generators,
     generatorSettings |-> generatorSettings, version |-> "appInfo.version",
     labelData |-> labelData]

\* {...assetMetadata, ...generatorUpdate}: every key the update carries overrides
Overlay(assetMetadata, generatorUpdate) ==
    [assetMetadata EXCEPT
        !.generators = IF generatorUpdate.generators.k # "undefined"
                       THEN generatorUpdate.generators ELSE @,
        !.generatorSettings = IF generatorUpdate.generatorSettings.k # "undefined"
                              THEN generatorUpdate.generatorSettings ELSE @,
        !.regions = IF generatorUpdate.regions.k # "undefined"
                    THEN generatorUpdate.regions ELSE @]

\* getAssetMetadata: the default shell, the label data, then the generator overlay
getAssetMetadata(store, asset) ==
    LET l == getLabelDataFromJSON(store, getLabelFilename(asset), asset)
        g == getGeneratorDataFromJSON(store, getGeneratorFilename(asset))
        shell == AssetMetadata(asset, Arr(<<>>), Arr(<<>>),
                               GeneratorSettings(DefaultGenerateCount), Null)
    IN  IF l.exc # "none" THEN [exc |-> l.exc, val |-> shell, toasts |-> l.toasts]
        ELSE IF g.exc # "none"
             THEN [exc |-> g.exc, val |-> shell, toasts |-> l.toasts \o g.toasts]
        ELSE [exc |-> "none",
              val |-> Overlay([shell EXCEPT !.labelData = l.val], g.val),
              toasts |-> l.toasts \o g.toasts]

---------------------------------------------------------------------------
(* The documents and assets the model ranges over *)

Pages == {1, 2}
Boxes == {<<10, 20>>, <<30, 40>>}
LabelNames == {"P", "Q", " "}
TagNames == {"P", "Q"}

Label(name, value) == [label |-> name, value |-> value]
ValueObj(page, boundingBoxes) == [page |-> page, boundingBoxes |-> boundingBoxes]

Iota(n) == [i \in 1..n |-> i]
Monotone(f) == \A i, j \in DOMAIN f : i <= j => f[i] <= f[j]

\* A label array laid out flat: the names of its labels, the page of each value entry
\* and the label that owns it, each box and the value entry that owns it; entries
\* and boxes are owned in document order
Layouts ==
    UNION {[names : [1..nl -> LabelNames],
            pages : [1..nv -> Pages],
            owner : {f \in [1..nv -> 1..nl] : Monotone(f)},
            boxes : [1..nb -> Boxes],
            holder : {f \in [1..nb -> 1..nv] : Monotone(f)}] :
           nl \in 0..MaxLabels, nv \in 0..MaxValues, nb \in 0..MaxBoxes}

\* the label array of a layout
LabelsOf(y) ==
    LET BoxesIn(e) ==
            MapSeq(LAMBDA b : y.boxes[b],
                   FilterSeq(LAMBDA b : y.holder[b] = e, Iota(Len(y.boxes))))
        ValuesIn(l) ==
            MapSeq(LAMBDA e : ValueObj(y.pages[e], BoxesIn(e)),
                   FilterSeq(LAMBDA e : y.owner[e] = l, Iota(Len(y.pages))))
    IN  [l \in 1..Len(y.names) |-> Label(y.names[l], ValuesIn(l))]

Asset(name, state) == [name |-> name, state |-> state]
AssetNames == {<<"a.pdf">>, <<"dir", "%2F", "b", "%20", "c.pdf">>}
FileNames ==
    {getLabelFilename(Asset(n, NotVisited)) : n \in AssetNames} \cup
    {getGeneratorFilename(Asset(n, NotVisited)) : n \in AssetNames}

\* the label texts that are no well-formed label document
MalformedLabelTexts ==
    {MissingFile, Garbage, JSONstringify(Null)} \cup
    {JSONstringify(LabelData(d, ls)) :
        d \in {Undefined, Text(<<>>)},
        ls \in {Undefined, Arr(<<>>), Arr(<<Label("P", <<>>)>>)}} \cup
    {JSONstringify(LabelData(Text(<<"a.pdf">>), Undefined))}

GeneratorP == Generator(Tag(Str("P"), Str("red")), Undefined, Undefined)
GeneratorQ == Generator(Tag(Str("Q"), Str("red")), Undefined, Undefined)
LegacyP == Generator(Undefined, Str("P"), Str("red"))
Settings == GeneratorSettings(DefaultGenerateCount + 1)

\* the texts a generator file may hold
StoredGeneratorTexts ==
    {MissingFile, Garbage, JSONstringify(Null),
     JSONstringify(GeneratorData(Arr(<<GeneratorP, GeneratorQ>>), Settings, Undefined)),
     JSONstringify(GeneratorData(Arr(<<LegacyP>>), Settings, Undefined)),
     JSONstringify(GeneratorData(Arr(<<GeneratorQ, Null>>), Settings, Undefined)),
     JSONstringify(GeneratorData(Arr(<<GeneratorP>>), Undefined, Undefined)),
     JSONstringify(GeneratorData(Undefined, Settings, Undefined)),
     JSONstringify(GeneratorData(Arr(<<>>), Settings,
                                 Arr(<<Region(<<"P">>), Region(<<"P", "Q">>)>>)))}

\* a valid label document of two labels, as text
LabelsPQ ==
    JSONstringify(LabelData(Text(<<"a.pdf">>),
        Arr(<<Label("P", <<ValueObj(1, <<<<10, 20>>>>)>>),
              Label("Q", <<ValueObj(2, <<<<10, 20>>>>)>>)>>)))

\* an empty label document, as text
LabelsNone == JSONstringify(LabelData(Text(<<"a.pdf">>), Arr(<<>>)))

\* An asset with its label text and its generator text: every generator text beside
\* a missing, an unreadable, an empty and a valid label file, and every malformed
\* label text without generator file
StoredDocuments ==
    (AssetNames \X AssetState \X {MissingFile, Garbage, LabelsNone, LabelsPQ}
        \X StoredGeneratorTexts)
    \cup ({<<"a.pdf">>} \X {NotVisited} \X MalformedLabelTexts \X {MissingFile})

NoCall == [op |-> "none"]
NoOutcome == [exc |-> "none", kind |-> "none"]
\* the callback of an asset while no pass is under way
Idle == [pc |-> "idle"]
NotLoaded == [k |-> "none"]

---------------------------------------------------------------------------
(* Loading one asset's metadata *)

\* getAssetMetadata(asset) for an asset of the project; the call keeps the metadata
\* of the save it follows, if it follows one
Load(a) ==
    LET r == getAssetMetadata(files, project[a])
    IN  /\ call' = [op |-> "load", asset |-> a,
                     saved |-> IF call.op = "save" THEN call.metadata ELSE NotLoaded]
        /\ outcome' = [exc |-> r.exc, kind |-> "metadata", val |-> r.val]
        /\ loaded' = [x \in DOMAIN project |-> IF x = a THEN r.val ELSE NotLoaded]
        /\ toasts' = r.toasts
        /\ storageOps' = <<>>
        /\ UNCHANGED <<files, project, blobs, tasks>>

InitRest ==
    /\ call = NoCall
    /\ outcome = NoOutcome
    /\ loaded = [a \in DOMAIN project |-> NotLoaded]
    /\ toasts = <<>>
    /\ storageOps = <<>>
    /\ tasks = [a \in DOMAIN project |-> Idle]

\* the storage holding the two documents of one asset and nothing else
StoreOf(asset, labelText, generatorText) ==
    [f \in FileNames |->
        IF f = getLabelFilename(asset) THEN labelText
        ELSE IF f = getGeneratorFilename(asset) THEN generatorText
        ELSE MissingFile]

\* One asset of the project: its two documents drawn from the stored documents, or
\* its label document any label array of the layouts
InitLoad ==
    /\ \/ \E d \in StoredDocuments :
            /\ project = [a \in {d[1]} |-> Asset(d[1], d[2])]
            /\ files = StoreOf(Asset(d[1], d[2]), d[3], d[4])
       \/ \E y \in Layouts :
            /\ project = [a \in {<<"a.pdf">>} |-> Asset(<<"a.pdf">>, NotVisited)]
            /\ files = StoreOf(Asset(<<"a.pdf">>, NotVisited),
                               JSONstringify(LabelData(Text(<<"a.pdf">>), Arr(LabelsOf(y)))),
                               MissingFile)
    /\ blobs = <<>>
    /\ InitRest

NextLoad == \E a \in DOMAIN project : Load(a)

SpecLoad == InitLoad /\ [][NextLoad]_vars

---------------------------------------------------------------------------
(* Saving one asset's metadata *)

StorageOp(op, name, text, exc) == [op |-> op, name |-> name, text |-> text, exc |-> exc]

\* storageProvider.writeText(name, text)
writeText(store, name, text) == [store EXCEPT ![name] = text]

\* storageProvider.deleteFile(name, true, true): the file is gone when the backend
\* carried the delete out, a file that was missing being no error; otherwise the file
\* is left as it was and the call fails
deleteFile(store, name, carriedOut) ==
    IF carriedOut
    THEN [store |-> [store EXCEPT ![name] = MissingFile], exc |-> "none"]
    ELSE [store |-> store, exc |-> "Error"]

\* saveLabels(asset, labelData), without prefix
saveLabels(store, asset, labelData) ==
    [store |-> writeText(store, getLabelFilename(asset), JSONstringify(labelData)),
     ops |-> <<StorageOp("writeText", getLabelFilename(asset), JSONstringify(labelData),
                         "none")>>]

\* the document saveGenerators writes
generatorData(metadata) ==
    GeneratorData(metadata.generators, metadata.generatorSettings, Undefined)

\* saveGenerators(metadata)
saveGenerators(store, metadata) ==
    IF Truthy(metadata.generators) \/ Truthy(metadata.generatorSettings)
    THEN [store |-> writeText(store, getGeneratorFilename(metadata.asset),
                              JSONstringify(generatorData(metadata))),
          ops |-> <<StorageOp("writeText", getGeneratorFilename(metadata.asset),
                              JSONstringify(generatorData(metadata)), "none")>>]
    ELSE [store |-> store, ops |-> <<>>]

\* a save that deletes the label file of an asset that is not Tagged, and writes
\* no label file
saveWithoutLabels(store, metadata, carriedOut) ==
    LET labelFileName == getLabelFilename(metadata.asset)
        d == deleteFile(store, labelFileName, carriedOut)
        l == IF metadata.asset.state # Tagged
             THEN [store |-> d.store,
                   ops |-> <<StorageOp("deleteFile", labelFileName, MissingFile, d.exc)>>]
             ELSE [store |-> store, ops |-> <<>>]
        g == saveGenerators(l.store, metadata)
    IN  [exc |-> "none", val |-> metadata, store |-> g.store, ops |-> l.ops \o g.ops]

\* a save that never deletes the label file
saveWithoutDelete(store, metadata, carriedOut) ==
    LET l == IF metadata.asset.state = Tagged /\ Truthy(metadata.labelData)
             THEN saveLabels(store, metadata.asset, metadata.labelData)
             ELSE [store |-> store, ops |-> <<>>]
        g == saveGenerators(l.store, metadata)
    IN  [exc |-> "none", val |-> metadata, store |-> g.store, ops |-> l.ops \o g.ops]

\* save(metadata): the label file is deleted unless the asset is Tagged, and written
\* when it is Tagged and carries label data; then the generators are saved
save(store, metadata, carriedOut) ==
    LET labelFileName == getLabelFilename(metadata.asset)
        d == deleteFile(store, labelFileName, carriedOut)
        l == IF metadata.asset.state # Tagged
             THEN [store |-> d.store,
                   ops |-> <<StorageOp("deleteFile", labelFileName, MissingFile, d.exc)>>]
             ELSE IF Truthy(metadata.labelData)
                  THEN saveLabels(store, metadata.asset, metadata.labelData)
                  ELSE [store |-> store, ops |-> <<>>]
        g == saveGenerators(l.store, metadata)
    IN  [exc |-> "none", val |-> metadata, store |-> g.store, ops |-> l.ops \o g.ops]

---------------------------------------------------------------------------
(* Deleting and renaming a tag *)

\* generator.tag?.name === tagName
TagNameIs(generator, tagName) ==
    Truthy(generator.tag) /\ generator.tag.name = Str(tagName)

\* a transformer of deleteTag that keeps every tag
deleteTransformerKeepingTags(tagName, tags) == tags

\* deleteTag: transformer
deleteTransformer(tagName, tags) == FilterSeq(LAMBDA t : t # tagName, tags)

\* deleteTag: labelTransformer
deleteLabelTransformer(tagName, labelData) ==
    [labelData EXCEPT
        !.labels = Arr(FilterSeq(LAMBDA label : label.label # tagName, @.items))]

\* deleteTag: generatorTransformer
deleteGeneratorTransformer(tagName, generator) ==
    IF TagNameIs(generator, tagName) THEN [generator EXCEPT !.tag = Null] ELSE generator

\* a transformer of updateTag that keeps every tag
updateTransformerKeepingTags(oldTag, newTag, tags) == tags

\* updateTag: transformer
updateTransformer(oldTag, newTag, tags) ==
    [i \in 1..Len(tags) |-> IF tags[i] = oldTag.name THEN newTag.name ELSE tags[i]]

\* updateTag: labelTransformer, which renames the first label named oldTag.name
updateLabelTransformer(oldTag, newTag, labelData) ==
    LET field == FindIndex(LAMBDA label : label.label = oldTag.name, labelData.labels.items)
    IN  IF field # 0
        THEN [labelData EXCEPT !.labels.items[field].label = newTag.name]
        ELSE labelData

\* { ...generator.tag, ...newTag }: the name, and each other field newTag carries
MergeTag(tag, newTag) ==
    [tag EXCEPT !.name = Str(newTag.name),
                !.color = IF newTag.color.k # "undefined" THEN newTag.color ELSE @]

\* updateTag: generatorTransformer
updateGeneratorTransformer(oldTag, newTag, generator) ==
    IF TagNameIs(generator, oldTag.name)
    THEN [generator EXCEPT !.tag = MergeTag(generator.tag, newTag)]
    ELSE generator

\* The three transformers a pass is run with: those of deleteTag, or those of
\* updateTag, whose transformer and labelTransformer stay undefined when the name
\* does not change
DeleteOf(tagName) == [op |-> "delete", tagName |-> tagName]
UpdateOf(oldTag, newTag) ==
    [op |-> "update", tagName |-> oldTag.name, oldTag |-> oldTag, newTag |-> newTag]

hasTransformer(x) == x.op = "delete" \/ x.oldTag.name # x.newTag.name
transformer(x, tags) ==
    IF x.op = "delete" THEN deleteTransformer(x.tagName, tags)
    ELSE updateTransformer(x.oldTag, x.newTag, tags)
labelTransformer(x, labelData) ==
    IF x.op = "delete" THEN deleteLabelTransformer(x.tagName, labelData)
    ELSE updateLabelTransformer(x.oldTag, x.newTag, labelData)
generatorTransformer(x, generator) ==
    IF x.op = "delete" THEN deleteGeneratorTransformer(x.tagName, generator)
    ELSE updateGeneratorTransformer(x.oldTag, x.newTag, generator)

\* a state that is Tagged whatever labels are left
StateAlwaysTagged(assetMetadata) == Tagged

\* _.get(assetMetadata, "labelData.labels.length") ? Tagged : Visited
StateOfLabels(assetMetadata) ==
    IF /\ Truthy(assetMetadata.labelData)
       /\ Truthy(assetMetadata.labelData.labels)
       /\ Len(assetMetadata.labelData.labels.items) # 0
    THEN Tagged ELSE Visited

\* updateTagInAssetMetadata: the metadata after the call and the boolean returned
updateTagInAssetMetadata(assetMetadata, tagName, x) ==
    LET inRegion(region) == \E i \in 1..Len(region.tags) : region.tags[i] = tagName
        foundInRegions ==
            hasTransformer(x) /\
            \E i \in 1..Len(assetMetadata.regions.items) :
                inRegion(assetMetadata.regions.items[i])
        regions ==
            IF hasTransformer(x)
            THEN MapSeq(LAMBDA region : IF inRegion(region)
                                        THEN [region EXCEPT !.tags = transformer(x, @)]
                                        ELSE region,
                        assetMetadata.regions.items)
            ELSE assetMetadata.regions.items
        foundInLabels ==
            /\ hasTransformer(x)
            /\ Truthy(assetMetadata.labelData)
            /\ Truthy(assetMetadata.labelData.labels)
            /\ \E i \in 1..Len(assetMetadata.labelData.labels.items) :
                  assetMetadata.labelData.labels.items[i].label = tagName
        labelData ==
            IF foundInLabels THEN labelTransformer(x, assetMetadata.labelData)
            ELSE assetMetadata.labelData
        oldGenerators == assetMetadata.generators.items
        generators == MapSeq(LAMBDA g : generatorTransformer(x, g), oldGenerators)
        foundTag == foundInRegions \/ foundInLabels
        mapped == [assetMetadata EXCEPT !.regions = Arr(regions),
                                        !.labelData = labelData,
                                        !.generators = Arr(generators)]
    IN  IF foundTag
        THEN [isUpdated |-> TRUE,
              assetMetadata |->
                  [mapped EXCEPT
                      !.regions = Arr(FilterSeq(LAMBDA region : Len(region.tags) > 0, regions)),
                      !.asset.state = StateOfLabels(mapped)]]
        ELSE [isUpdated |-> \E i \in 1..Len(oldGenerators) :
                                TagNameIs(oldGenerators[i], tagName),
              assetMetadata |-> mapped]

\* _.values(project.assets): the assets in the order of their keys
AssetOrder == <<<<"a.pdf">>, <<"dir", "%2F", "b", "%20", "c.pdf">>>>
Values(assets) ==
    MapSeq(LAMBDA n : assets[n], FilterSeq(LAMBDA n : n \in DOMAIN assets, AssetOrder))

\* a getUpdatedAssets that returns the metadata of every asset, updated or not
getUpdatedAssetsUnfiltered(store, assets, tagName, x) ==
    MapSeq(LAMBDA asset :
               updateTagInAssetMetadata(getAssetMetadata(store, asset).val,
                                        tagName, x).assetMetadata,
           Values(assets))

\* getUpdatedAssets: every asset is loaded and passed to updateTagInAssetMetadata;
\* the metadata of those it reports updated are returned, in the order of the assets
getUpdatedAssets(store, assets, tagName, x) ==
    LET updates ==
            MapSeq(LAMBDA asset :
                       LET u == updateTagInAssetMetadata(getAssetMetadata(store, asset).val,
                                                         tagName, x)
                       IN  IF u.isUpdated THEN u.assetMetadata ELSE Null,
                   Values(assets))
    IN  FilterSeq(LAMBDA assetMetadata : assetMetadata # Null, updates)

---------------------------------------------------------------------------
(* The service at work on a project of two assets *)

\* a valid label document of one label, as text
LabelsP ==
    JSONstringify(LabelData(Text(<<"a.pdf">>),
        Arr(<<Label("P", <<ValueObj(1, <<<<10, 20>>>>)>>)>>)))

\* a valid label document whose label has two value entries and two boxes, as text
LabelsTwoBoxes ==
    JSONstringify(LabelData(Text(<<"a.pdf">>),
        Arr(<<Label("Q", <<ValueObj(2, <<<<10, 20>>>>), ValueObj(2, <<<<30, 40>>>>)>>)>>)))

ProjectLabelTexts == {MissingFile, Garbage, LabelsP, LabelsPQ}
ProjectGeneratorTexts ==
    {MissingFile,
     JSONstringify(GeneratorData(Arr(<<GeneratorP, GeneratorQ>>), Settings, Undefined)),
     JSONstringify(GeneratorData(Arr(<<LegacyP>>), Settings, Undefined)),
     JSONstringify(GeneratorData(Arr(<<GeneratorQ>>), Settings,
                                 Arr(<<Region(<<"Q">>), Region(<<"P", "Q">>)>>)))}

\* the metadata a caller hands to save: an asset of the project in any state, with
\* no, empty or valid label data, with or without generators
SavedLabelData == {Null, LabelsNone.v, LabelsP.v, LabelsPQ.v, LabelsTwoBoxes.v}
SavedGenerators == {<<Undefined, Undefined>>, <<Arr(<<GeneratorP, GeneratorQ>>), Settings>>}
SavedMetadata ==
    {AssetMetadata([project[a] EXCEPT !.state = s], Arr(<<>>), g[1], g[2], l) :
        a \in DOMAIN project, s \in AssetState, l \in SavedLabelData, g \in SavedGenerators}

Colors == {Str("blue")}

\* a project of the assets named, each in any state, with any of the label texts and
\* of the generator texts stored for it
InitProject(names) ==
    /\ \E states \in [names -> AssetState],
          labelTexts \in [names -> ProjectLabelTexts],
          generatorTexts \in [names -> ProjectGeneratorTexts] :
          /\ project = [n \in names |-> Asset(n, states[n])]
          /\ files = [f \in FileNames |->
                        IF \E n \in names : f = getLabelFilename(Asset(n, NotVisited))
                        THEN labelTexts[CHOOSE n \in names :
                                            f = getLabelFilename(Asset(n, NotVisited))]
                        ELSE IF \E n \in names : f = getGeneratorFilename(Asset(n, NotVisited))
                        THEN generatorTexts[CHOOSE n \in names :
                                            f = getGeneratorFilename(Asset(n, NotVisited))]
                        ELSE MissingFile]
    /\ blobs = <<>>
    /\ InitRest

\* a project of one asset
Init == \E n \in AssetNames : InitProject({n})

\* a project of two assets
InitTags == InitProject(AssetNames)

\* save(metadata)
Save(metadata, carriedOut) ==
    LET r == save(files, metadata, carriedOut)
    IN  /\ call' = [op |-> "save", metadata |-> metadata, before |-> files]
        /\ outcome' = [exc |-> r.exc, kind |-> "metadata", val |-> r.val]
        /\ files' = r.store
        /\ storageOps' = r.ops
        /\ toasts' = <<>>
        /\ loaded' = [a \in DOMAIN project |-> NotLoaded]
        /\ UNCHANGED <<project, blobs, tasks>>

\* a pass that saves the metadata it updated
PassSaving(x) ==
    LET updated == getUpdatedAssets(files, project, x.tagName, x)
        r == IF updated = <<>> THEN [store |-> files, ops |-> <<>>]
             ELSE save(files, updated[1], TRUE)
    IN  /\ call' = x
        /\ outcome' = [exc |-> "none", kind |-> "list", val |-> updated]
        /\ loaded' = [a \in DOMAIN project |-> getAssetMetadata(files, project[a]).val]
        /\ toasts' = <<>>
        /\ files' = r.store
        /\ storageOps' = r.ops
        /\ UNCHANGED <<project, blobs, tasks>>

\* One pass of getUpdatedAssets over the project
Pass(x) ==
    /\ call' = x
    /\ outcome' = [exc |-> "none", kind |-> "list",
                   val |-> getUpdatedAssets(files, project, x.tagName, x)]
    /\ loaded' = [a \in DOMAIN project |-> getAssetMetadata(files, project[a]).val]
    /\ toasts' = <<>>
    /\ storageOps' = <<>>
    /\ UNCHANGED <<files, project, blobs, tasks>>

\* deleteTag(tagName)
DeleteTag(tagName) == Pass(DeleteOf(tagName))

\* renameTag(tagName, newTagName)
RenameTag(tagName, newTagName) ==
    Pass(UpdateOf([name |-> tagName], [name |-> newTagName, color |-> Undefined]))

\* updateTag(oldTag, newTag) with a new colour beside the name
UpdateTag(oldTag, newTag) == Pass(UpdateOf(oldTag, newTag))

Next ==
    \/ \E a \in DOMAIN project : Load(a)
    \/ \E metadata \in SavedMetadata, carriedOut \in BOOLEAN : Save(metadata, carriedOut)
    \/ \E tagName \in TagNames : DeleteTag(tagName)
    \/ \E tagName, newTagName \in TagNames : RenameTag(tagName, newTagName)
    \/ \E tagName, newTagName \in TagNames, color \in Colors :
          UpdateTag([name |-> tagName], [name |-> newTagName, color |-> color])

\* the passes and the loads alone: nothing is saved
NextTags ==
    \/ \E a \in DOMAIN project : Load(a)
    \/ \E tagName \in TagNames : DeleteTag(tagName)
    \/ \E tagName, newTagName \in TagNames : RenameTag(tagName, newTagName)
    \/ \E tagName, newTagName \in TagNames, color \in Colors :
          UpdateTag([name |-> tagName], [name |-> newTagName, color |-> color])

Spec == Init /\ [][Next]_vars

SpecTags == InitTags /\ [][NextTags]_vars

---------------------------------------------------------------------------
(* Resolving an asset from its path *)

\* A path or file name is a sequence of pieces of text, its separators ("/", "\\",
\* ".", "?", "#") pieces of their own.

supportedImageFormats == {"jpg", "jpeg", "null", "png", "bmp", "tif", "tiff", "pdf"}

\* imageMimes: the types and the byte pattern of each signature, in order
imageMimes ==
    <<[types |-> <<"bmp">>, pattern |-> <<66, 77>>],
      [types |-> <<"png">>, pattern |-> <<137, 80, 78, 71>>],
      [types |-> <<"jpeg", "jpg">>, pattern |-> <<255, 216, 255>>],
      [types |-> <<"tif", "tiff">>, pattern |-> <<73, 73, 66, 0>>],
      [types |-> <<"pdf">>, pattern |-> <<37, 80, 68, 70, 45>>]>>

Max(S) == CHOOSE x \in S : \A y \in S : y <= x

\* Math.max(...imageMimes.map((m) => m.pattern.length)) - 1
mimeBytesNeeded == Max({Len(imageMimes[i].pattern) : i \in 1..Len(imageMimes)}) - 1

\* isMime: a pattern byte that is falsy matches any byte, also one that is not there
isMime(bytes, mime) ==
    \A i \in 1..Len(mime.pattern) :
        mime.pattern[i] = 0 \/ (i <= Len(bytes) /\ bytes[i] = mime.pattern[i])

\* getMimeType: the types of the first signature that matches bytes 0..mimeBytesNeeded
\* of the file, or no type
getMimeType(content) ==
    LET bytes == SubSeq(content, 1, IF Len(content) <= mimeBytesNeeded + 1
                                    THEN Len(content) ELSE mimeBytesNeeded + 1)
        first == FindIndex(LAMBDA mime : isMime(bytes, mime), imageMimes)
    IN  IF first = 0 THEN <<>> ELSE imageMimes[first].types

\* String.prototype.toLowerCase on the pieces of the model
toLowerCase(piece) ==
    CASE piece = "JPG" -> "jpg"
      [] piece = "PNG" -> "png"
      [] piece = "Scan" -> "scan"
      [] OTHER -> piece

Image == "Image"
TIFF == "TIFF"
PDF == "PDF"
Unknown == "Unknown"

\* getAssetType(format): format.toLowerCase() throws when format is undefined
getAssetType(format) ==
    IF format.k # "string" THEN [exc |-> "TypeError", val |-> Unknown]
    ELSE [exc |-> "none",
          val |-> CASE toLowerCase(format.s) \in {"jpg", "jpeg", "png", "bmp"} -> Image
                    [] toLowerCase(format.s) \in {"tif", "tiff"} -> TIFF
                    [] toLowerCase(format.s) = "pdf" -> PDF
                    [] OTHER -> Unknown]

\* the pieces after the last piece that is one of seps
RECURSIVE AfterLast(_, _)
AfterLast(pieces, seps) ==
    IF \E i \in 1..Len(pieces) : pieces[i] \in seps
    THEN AfterLast(Tail(pieces), seps)
    ELSE pieces

\* the pieces before the first piece that is one of seps
RECURSIVE BeforeFirst(_, _)
BeforeFirst(pieces, seps) ==
    IF pieces = <<>> \/ Head(pieces) \in seps THEN <<>>
    ELSE <<Head(pieces)>> \o BeforeFirst(Tail(pieces), seps)

\* the text of a sequence of pieces that holds at most one piece
TextOf(pieces) == IF pieces = <<>> THEN "" ELSE pieces[1]

\* normalizedPath.startsWith("http://"), ("https://") or ("file:")
HasProtocol(filePath) ==
    filePath # <<>> /\ toLowerCase(filePath[1]) \in {"http://", "https://", "file:"}

\* encodeFileURI(filePath, true): "\\" becomes "/", and the path a file: reference
encodeFileURI(filePath) ==
    <<"file:">> \o [i \in 1..Len(filePath) |-> IF filePath[i] = "\\" THEN "/" ELSE filePath[i]]

\* createAssetFromFilePath(filePath, fileName): the asset returned or the exception
\* thrown, and the notice scheduled when the format was changed
createAssetFromFilePath(filePath, fileName, content) ==
    LET path == IF HasProtocol(filePath) THEN filePath ELSE encodeFileURI(filePath)
        pathParts == AfterLast(path, {"/", "\\"})
        name == IF Truthy(fileName) THEN fileName.s ELSE pathParts
        fileNameParts == AfterLast(name, {"."})
        extensionParts == BeforeFirst(fileNameParts, {"?", "#"})
        nominal == toLowerCase(TextOf(extensionParts))
        sniffs == nominal \in supportedImageFormats
        types == getMimeType(content)
        corrects == sniffs /\ nominal \notin SeqToSet(types)
        assetFormat ==
            IF corrects THEN (IF types = <<>> THEN Undefined ELSE Str(types[1]))
            ELSE Str(nominal)
        assetType == getAssetType(assetFormat)
    IN  IF filePath = <<>> THEN [exc |-> "Error", val |-> Null, toasts |-> <<>>]
        ELSE [exc |-> assetType.exc,
              val |-> [id |-> <<"sha256Hash">> \o path, format |-> assetFormat,
                       state |-> NotVisited, type |-> assetType.val,
                       name |-> name, path |-> path, size |-> Null],
              toasts |-> IF corrects
                         THEN <<Toast("info", "incorrectFileExtension")>> ELSE <<>>]

\* the file names resolved: every recognized extension, one in upper case, one
\* behind a second extension, ones followed by a query or a fragment, none
ResolvedNames ==
    {<<"scan", ".", e>> : e \in supportedImageFormats \cup {"txt"}} \cup
    {<<"Scan", ".", "JPG">>, <<"scan", ".", "tar", ".", "pdf">>,
     <<"scan", ".", "png", "?", "sig">>, <<"scan", ".", "bmp", "#", "p2">>, <<"scan">>}
ResolvedPaths ==
    {<<"https://", "host", "/", "dir", "/">> \o n : n \in ResolvedNames} \cup
    {<<"C:", "\\", "dir", "\\", "scan", ".", "png">>}

\* the first bytes of a file: each signature, each signature with one byte changed
\* or its last byte missing, each signature in a longer file, and no byte at all
ResolvedContents ==
    {<<>>} \cup
    UNION {LET p == imageMimes[i].pattern
           IN  {p, SubSeq(p, 1, Len(p) - 1), p \o <<1, 1, 1, 1>>} \cup
               {[p EXCEPT ![j] = 1] : j \in 1..Len(p)} :
           i \in 1..Len(imageMimes)}

\* createAssetFromFilePath(filePath, fileName) on the file behind the path
Resolve(filePath, fileName) ==
    LET r == createAssetFromFilePath(filePath, fileName, blobs[filePath])
    IN  /\ call' = [op |-> "resolve", filePath |-> filePath, fileName |-> fileName]
        /\ outcome' = [exc |-> r.exc, kind |-> "asset", val |-> r.val]
        /\ toasts' = r.toasts
        /\ UNCHANGED <<files, project, blobs, loaded, storageOps, tasks>>

\* one file of any content behind one path, and an empty project
InitResolve ==
    /\ \E filePath \in ResolvedPaths, content \in ResolvedContents :
          blobs = [f \in {filePath} |-> content]
    /\ project = <<>>
    /\ files = [f \in FileNames |-> MissingFile]
    /\ InitRest

NextResolve ==
    \E filePath \in DOMAIN blobs, fileName \in {Undefined, Text(<<"renamed", ".", "jpg">>)} :
        Resolve(filePath, fileName)

SpecResolve == InitResolve /\ [][NextResolve]_vars

---------------------------------------------------------------------------
(* A pass whose callbacks run concurrently *)

\* getUpdatedAssets maps the assets with mapAsync: the callback of every asset is
\* started, each runs from one await to the next, and the callbacks of different
\* assets interleave at their awaits in any order.  The results are gathered, in the
\* order of the assets, when every callback has returned.

\* getAssetMetadata: the default metadata, before anything is read
DefaultShell(asset) ==
    AssetMetadata(asset, Arr(<<>>), Arr(<<>>), GeneratorSettings(DefaultGenerateCount), Null)

\* the calls a pass is started with
PassCalls ==
    {DeleteOf(tagName) : tagName \in TagNames} \cup
    {UpdateOf([name |-> tagName], [name |-> newTagName, color |-> color]) :
        tagName \in TagNames, newTagName \in TagNames, color \in Colors \cup {Undefined}}

\* deleteTag / updateTag call getUpdatedAssets: the callback of every asset starts,
\* builds the default metadata and waits for its label file
Dispatch(x) ==
    /\ \A a \in DOMAIN project : tasks[a].pc = "idle"
    /\ call' = x
    /\ outcome' = NoOutcome
    /\ loaded' = [a \in DOMAIN project |-> NotLoaded]
    /\ toasts' = <<>>
    /\ storageOps' = <<>>
    /\ tasks' = [a \in DOMAIN project |->
                    [pc |-> "readLabels", metadata |-> DefaultShell(project[a]),
                     isUpdated |-> FALSE]]
    /\ UNCHANGED <<files, project, blobs>>

\* the label file of asset a has been read: its callback sets labelData and waits
\* for the generator file
LabelsRead(a) ==
    LET l == getLabelDataFromJSON(files, getLabelFilename(project[a]), project[a])
    IN  /\ tasks[a].pc = "readLabels"
        /\ tasks' = [tasks EXCEPT ![a].pc = "readGenerators",
                                  ![a].metadata.labelData = l.val]
        /\ toasts' = toasts \o l.toasts
        /\ UNCHANGED <<files, project, blobs, call, outcome, loaded, storageOps>>

\* the generator file of asset a has been read: getAssetMetadata overlays it and
\* returns the metadata to the callback
GeneratorsRead(a) ==
    LET g == getGeneratorDataFromJSON(files, getGeneratorFilename(project[a]))
        assetMetadata == Overlay(tasks[a].metadata, g.val)
    IN  /\ tasks[a].pc = "readGenerators"
        /\ tasks' = [tasks EXCEPT ![a].pc = "transform", ![a].metadata = assetMetadata]
        /\ loaded' = [loaded EXCEPT ![a] = assetMetadata]
        /\ toasts' = toasts \o g.toasts
        /\ UNCHANGED <<files, project, blobs, call, outcome, storageOps>>

\* a callback that passes its metadata to updateTagInAssetMetadata as soon as the
\* label file has been read
TransformTaskBeforeGenerators(a) ==
    LET u == updateTagInAssetMetadata(tasks[a].metadata, call.tagName, call)
    IN  /\ tasks[a].pc \in {"readGenerators", "transform"}
        /\ tasks' = [tasks EXCEPT ![a].pc = "done", ![a].metadata = u.assetMetadata,
                                  ![a].isUpdated = u.isUpdated]
        /\ UNCHANGED <<files, project, blobs, call, outcome, loaded, toasts, storageOps>>

\* the callback of asset a passes the metadata it awaited to
\* updateTagInAssetMetadata and returns
TransformTask(a) ==
    LET u == updateTagInAssetMetadata(tasks[a].metadata, call.tagName, call)
    IN  /\ tasks[a].pc = "transform"
        /\ tasks' = [tasks EXCEPT ![a].pc = "done", ![a].metadata = u.assetMetadata,
                                  ![a].isUpdated = u.isUpdated]
        /\ UNCHANGED <<files, project, blobs, call, outcome, loaded, toasts, storageOps>>

\* every callback has returned: updates.filter((assetMetadata) => !!assetMetadata)
Collect ==
    LET updates == MapSeq(LAMBDA asset : IF tasks[asset.name].isUpdated
                                         THEN tasks[asset.name].metadata ELSE Null,
                          Values(project))
    IN  /\ \A a \in DOMAIN project : tasks[a].pc = "done"
        /\ outcome' = [exc |-> "none", kind |-> "list",
                       val |-> FilterSeq(LAMBDA assetMetadata : assetMetadata # Null, updates)]
        /\ tasks' = [a \in DOMAIN project |-> Idle]
        /\ UNCHANGED <<files, project, blobs, call, loaded, toasts, storageOps>>

\* a project of two assets, each Tagged or Visited
InitAsync == InitTags /\ \A a \in DOMAIN project : project[a].state # NotVisited

NextAsync ==
    \/ \E x \in PassCalls : Dispatch(x)
    \/ \E a \in DOMAIN project : LabelsRead(a)
    \/ \E a \in DOMAIN project : GeneratorsRead(a)
    \/ \E a \in DOMAIN project : TransformTask(a)
    \/ Collect

SpecAsync == InitAsync /\ [][NextAsync]_vars

---------------------------------------------------------------------------
(* What the label validator is to check, stated on a parsed label document *)

BlankNames == {"", " "}

HasFields(d) == d.k = "object" /\ Truthy(d.document) /\ Truthy(d.labels)
HasLabels(d) == d.labels.items # <<>>
NoBlankName(d) ==
    \A i \in 1..Len(d.labels.items) : d.labels.items[i].label \notin BlankNames
DistinctNames(d) ==
    \A i, j \in 1..Len(d.labels.items) :
        i # j => d.labels.items[i].label # d.labels.items[j].label

\* the value entries of a document, as <<label, entry>>
EntriesOf(d) ==
    UNION {{<<i, u>> : u \in 1..Len(d.labels.items[i].value)} :
           i \in 1..Len(d.labels.items)}
EntryAt(d, e) == d.labels.items[e[1]].value[e[2]]

\* the boxes of a document, as <<label, entry, box>>
BoxesOf(d) ==
    UNION {{<<e[1], e[2], b>> : b \in 1..Len(EntryAt(d, e).boundingBoxes)} :
           e \in EntriesOf(d)}
PageAt(d, p) == EntryAt(d, <<p[1], p[2]>>).page
BoxAt(d, p) == EntryAt(d, <<p[1], p[2]>>).boundingBoxes[p[3]]

\* document order
EntryBefore(e, f) == e[1] < f[1] \/ (e[1] = f[1] /\ e[2] < f[2])
BoxBefore(p, q) ==
    EntryBefore(<<p[1], p[2]>>, <<q[1], q[2]>>) \/
    (p[1] = q[1] /\ p[2] = q[2] /\ p[3] < q[3])

\* the entries on another page than the first entry of their label
CrossPageEntries(d) ==
    {e \in EntriesOf(d) : EntryAt(d, e).page # EntryAt(d, <<e[1], 1>>).page}
\* the entries holding a box that repeats the page and box of an earlier one
RepeatEntries(d) ==
    {<<q[1], q[2]>> : q \in {q \in BoxesOf(d) :
        \E p \in BoxesOf(d) :
            BoxBefore(p, q) /\ PageAt(d, p) = PageAt(d, q) /\ BoxAt(d, p) = BoxAt(d, q)}}

OnePagePerLabel(d) == CrossPageEntries(d) = {}
NoRepeatedBox(d) == RepeatEntries(d) = {}

ValidLabelData(d) ==
    /\ HasFields(d) /\ HasLabels(d) /\ NoBlankName(d) /\ DistinctNames(d)
    /\ OnePagePerLabel(d) /\ NoRepeatedBox(d)

\* the error of the first failing check, the six checks taken in the order of the list
ErrorInListOrder(d) ==
    CASE ~HasFields(d) -> Toast("error", "missingRequiredFieldInLabelFile")
      [] HasFields(d) /\ ~HasLabels(d) -> Toast("info", "noLabelInLabelFile")
      [] HasFields(d) /\ HasLabels(d) /\ ~NoBlankName(d) -> Toast("error", "emptyName")
      [] HasFields(d) /\ HasLabels(d) /\ NoBlankName(d) /\ ~DistinctNames(d) ->
            Toast("error", "duplicateFieldKeyInLabelsFile")
      [] HasFields(d) /\ HasLabels(d) /\ NoBlankName(d) /\ DistinctNames(d)
            /\ ~OnePagePerLabel(d) -> Toast("error", "sameLabelInDifferentPageError")
      [] OTHER -> Toast("error", "duplicateBoxInLabelFile")

\* the error when the page check and the box check are made in one pass over the
\* entries in document order, the page of an entry before its boxes
ErrorInDocumentOrder(d) ==
    IF ~(HasFields(d) /\ HasLabels(d) /\ NoBlankName(d) /\ DistinctNames(d))
    THEN ErrorInListOrder(d)
    ELSE IF /\ CrossPageEntries(d) # {}
            /\ \A r \in RepeatEntries(d) :
                  \E c \in CrossPageEntries(d) : c = r \/ EntryBefore(c, r)
         THEN Toast("error", "sameLabelInDifferentPageError")
         ELSE Toast("error", "duplicateBoxInLabelFile")

\* the state after a load whose label file held the text of a JSON object
LoadedObject ==
    /\ call.op = "load"
    /\ files[getLabelFilename(project[call.asset])].t = "json"
    /\ files[getLabelFilename(project[call.asset])].v.k = "object"
StoredLabels == files[getLabelFilename(project[call.asset])].v
StoredGenerators == files[getGeneratorFilename(project[call.asset])]

\* the validator accepts exactly the documents that pass the six checks; a rejected
\* one is replaced by empty label data and reported by Error(d)
ValidatorDecides(Error(_)) ==
    LoadedObject =>
        /\ outcome.exc = "none"
        /\ ValidLabelData(StoredLabels) =>
              /\ outcome.val.labelData = StoredLabels
              /\ toasts[1] = Toast("dismiss", "")
        /\ ~ValidLabelData(StoredLabels) =>
              /\ outcome.val.labelData = emptyLabelData(project[call.asset].name)
              /\ toasts[1] = Error(StoredLabels)

\* C7 as stated: a parsed label document is accepted and returned unchanged if and
\* only if the six checks hold, and the first failing check in the order of the list
\* determines the reported error.
C7_ListOrder == ValidatorDecides(ErrorInListOrder)

\* C7, amended: a parsed label document is accepted and returned unchanged if and
\* only if the six checks hold; the first four checks run in the order of the list,
\* and the page check and the box check are made in one pass over the value entries
\* in document order, so that the first violation met in that pass is the one
\* reported.
C7_DocumentOrder == ValidatorDecides(ErrorInDocumentOrder)

\* a document that fails the page check and the box check, the repeated box first
C7_Witness ==
    /\ LoadedObject
    /\ HasFields(StoredLabels) /\ HasLabels(StoredLabels) /\ NoBlankName(StoredLabels)
    /\ DistinctNames(StoredLabels)
    /\ ~OnePagePerLabel(StoredLabels) /\ ~NoRepeatedBox(StoredLabels)
    /\ toasts[1] = Toast("error", "duplicateBoxInLabelFile")
    /\ outcome.val.labelData = emptyLabelData(project[call.asset].name)

\* C6: a load never fails towards its caller; a label text that is no JSON gives
\* labelData = null, a parsed label document that fails a check gives empty label
\* data for the asset's name, and a generator document without generators or
\* generatorSettings leaves the default shell in place.
C6_LoadAbsorbsBadDocuments ==
    call.op = "load" =>
        /\ outcome.exc = "none"
        /\ files[getLabelFilename(project[call.asset])].t = "garbage" =>
              outcome.val.labelData = Null
        /\ /\ files[getLabelFilename(project[call.asset])].t = "json"
           /\ ~ValidLabelData(StoredLabels)
           => outcome.val.labelData =
                 LabelData(Text(LastSegment(decodeURIComponent(project[call.asset].name))),
                           Arr(<<>>))
        /\ /\ StoredGenerators.t = "json"
           /\ StoredGenerators.v.k = "object"
           /\ ~Truthy(StoredGenerators.v.generators) \/
                ~Truthy(StoredGenerators.v.generatorSettings)
           => /\ outcome.val.generators = Arr(<<>>)
              /\ outcome.val.generatorSettings = GeneratorSettings(40)

\* a rejected label document with labels in it, loaded beside a generator document
\* that lacks generatorSettings
C6_Witness ==
    /\ call.op = "load"
    /\ StoredGenerators.t = "json"
    /\ StoredGenerators.v.k = "object"
    /\ Truthy(StoredGenerators.v.generators)
    /\ ~Truthy(StoredGenerators.v.generatorSettings)
    /\ files[getLabelFilename(project[call.asset])].t = "garbage"
    /\ outcome.val.labelData = Null
    /\ outcome.val.generators = Arr(<<>>)

---------------------------------------------------------------------------
(* What a pass is to return, stated on the metadata loaded and returned *)

LabelsIn(m) ==
    IF Truthy(m.labelData) /\ Truthy(m.labelData.labels) THEN m.labelData.labels.items
    ELSE <<>>
RegionTags(m) == [i \in 1..Len(m.regions.items) |-> m.regions.items[i].tags]
BoundTo(g, t) == g.tag.k = "object" /\ g.tag.name = Str(t)

InRegions(m, t) == \E i \in 1..Len(m.regions.items) : t \in SeqToSet(m.regions.items[i].tags)
InLabels(m, t) == \E i \in 1..Len(LabelsIn(m)) : LabelsIn(m)[i].label = t
InGenerators(m, t) == \E i \in 1..Len(m.generators.items) : BoundTo(m.generators.items[i], t)

IsPass == call.op \in {"delete", "update"}
NameChanges == call.op = "delete" \/ call.oldTag.name # call.newTag.name
\* the metadata the last operation produced
Produced ==
    IF IsPass THEN SeqToSet(outcome.val)
    ELSE IF call.op = "load" THEN {outcome.val} ELSE {}
\* the metadata loaded for the asset of a returned one
Fresh(m) == loaded[m.asset.name]
NonEmptyOnes(tagLists) == FilterSeq(LAMBDA tags : tags # <<>>, tagLists)

\* C2 as stated: in every metadata produced by load, delete or rename the state is
\* Tagged whenever labelData holds a label, and Visited when labelData is present
\* with no labels after a tag removal.
C2_StateFromLabels ==
    \A m \in Produced :
        /\ LabelsIn(m) # <<>> => m.asset.state = Tagged
        /\ call.op = "delete" /\ Truthy(m.labelData) /\ LabelsIn(m) = <<>>
           => m.asset.state = Visited

\* C2, amended: in every metadata a delete or rename returns for an asset in whose
\* region tag lists or labels it found the tag, the state is Tagged if labelData
\* holds a label and Visited otherwise; in the metadata load produces, and in the
\* metadata returned only because a generator's tag matched, the state is the one
\* the project's asset has, whatever labelData holds.
C2_StateRecomputedWhenFound ==
    \A m \in Produced :
        IF IsPass /\ NameChanges /\
           (InRegions(Fresh(m), call.tagName) \/ InLabels(Fresh(m), call.tagName))
        THEN m.asset.state = (IF LabelsIn(m) # <<>> THEN Tagged ELSE Visited)
        ELSE m.asset.state = project[m.asset.name].state

\* a delete took the last label of an asset the project holds as Tagged
C2_Witness ==
    /\ call.op = "delete"
    /\ \E m \in Produced :
          /\ InLabels(Fresh(m), call.tagName)
          /\ Truthy(m.labelData) /\ LabelsIn(m) = <<>>
          /\ project[m.asset.name].state = Tagged
          /\ m.asset.state = Visited

\* C3: after delete(tagName) the name occurs in no region, label or generator binding
\* of a returned metadata, the regions left without tag are gone, and the other
\* tags, labels and generators are as they were loaded.
C3_DeleteRemovesTag ==
    call.op = "delete" =>
        \A m \in Produced :
            LET l == Fresh(m)
                t == call.tagName
            IN  /\ ~InRegions(m, t) /\ ~InLabels(m, t) /\ ~InGenerators(m, t)
                /\ NonEmptyOnes(RegionTags(m)) =
                      NonEmptyOnes([i \in 1..Len(l.regions.items) |->
                                       FilterSeq(LAMBDA x : x # t, l.regions.items[i].tags)])
                /\ InRegions(l, t) => \A i \in 1..Len(RegionTags(m)) : RegionTags(m)[i] # <<>>
                /\ Truthy(m.labelData) <=> Truthy(l.labelData)
                /\ Truthy(m.labelData) => m.labelData.document = l.labelData.document
                /\ LabelsIn(m) = FilterSeq(LAMBDA f : f.label # t, LabelsIn(l))
                /\ Len(m.generators.items) = Len(l.generators.items)
                /\ \A j \in 1..Len(l.generators.items) :
                      m.generators.items[j] =
                          IF BoundTo(l.generators.items[j], t)
                          THEN [l.generators.items[j] EXCEPT !.tag = Null]
                          ELSE l.generators.items[j]
                /\ m.generatorSettings = l.generatorSettings

\* a delete that emptied a region, took a label and cleared a generator
C3_Witness ==
    /\ call.op = "delete"
    /\ \E m \in Produced :
          /\ InRegions(Fresh(m), call.tagName)
          /\ InLabels(Fresh(m), call.tagName)
          /\ InGenerators(Fresh(m), call.tagName)
          /\ Len(m.regions.items) < Len(Fresh(m).regions.items)
          /\ Len(LabelsIn(m)) < Len(LabelsIn(Fresh(m)))

\* the metadata loaded, with old replaced by the new tag wherever it is bound
Renamed(m, l, old, newTag) ==
    /\ RegionTags(m) =
          [i \in 1..Len(l.regions.items) |->
              [j \in 1..Len(l.regions.items[i].tags) |->
                  IF l.regions.items[i].tags[j] = old THEN newTag.name
                  ELSE l.regions.items[i].tags[j]]]
    /\ Truthy(m.labelData) <=> Truthy(l.labelData)
    /\ LabelsIn(m) =
          [i \in 1..Len(LabelsIn(l)) |->
              IF LabelsIn(l)[i].label = old
              THEN Label(newTag.name, LabelsIn(l)[i].value)
              ELSE LabelsIn(l)[i]]
    /\ Len(m.generators.items) = Len(l.generators.items)
    /\ \A j \in 1..Len(l.generators.items) :
          LET g == l.generators.items[j]
          IN  m.generators.items[j] =
                  IF BoundTo(g, old)
                  THEN [g EXCEPT !.tag.name = Str(newTag.name),
                                 !.tag.color = IF newTag.color = Undefined THEN @
                                               ELSE newTag.color]
                  ELSE g

\* C4 as stated: after rename(oldName, newName) every occurrence of oldName in a
\* returned metadata is replaced by newName, and oldName occurs in no region, label
\* or generator binding of it.
C4_RenameReplacesTag ==
    call.op = "update" =>
        \A m \in Produced :
            /\ Renamed(m, Fresh(m), call.oldTag.name, call.newTag)
            /\ ~InRegions(m, call.oldTag.name)
            /\ ~InLabels(m, call.oldTag.name)
            /\ ~InGenerators(m, call.oldTag.name)

\* C4, amended: after rename(oldName, newName) with newName other than oldName every
\* occurrence of oldName in a returned metadata is replaced by newName at its place,
\* the other tags, label values and tag fields being kept (or overridden by the
\* fields supplied), and oldName occurs in no region, label or generator binding.
C4_RenameToOtherNameReplacesTag ==
    call.op = "update" /\ call.oldTag.name # call.newTag.name => C4_RenameReplacesTag

\* a rename to another name that found the tag in a region, a label and a generator
C4_Witness ==
    /\ call.op = "update"
    /\ call.oldTag.name # call.newTag.name
    /\ \E m \in Produced :
          /\ InRegions(Fresh(m), call.oldTag.name)
          /\ InLabels(Fresh(m), call.oldTag.name)
          /\ InGenerators(Fresh(m), call.oldTag.name)
          /\ InRegions(m, call.newTag.name)
          /\ InLabels(m, call.newTag.name)
          /\ InGenerators(m, call.newTag.name)

ReturnedFor(a) == {i \in 1..Len(outcome.val) : outcome.val[i].asset.name = a}

\* C5 as stated: a pass returns the metadata of an asset, once, if and only if the
\* tag occurs in a region, a label or a generator binding of its loaded metadata.
C5_ReturnedIffTagOccurs ==
    IsPass =>
        \A a \in DOMAIN project :
            /\ Cardinality(ReturnedFor(a)) <= 1
            /\ ReturnedFor(a) # {} <=>
                  \/ InRegions(loaded[a], call.tagName)
                  \/ InLabels(loaded[a], call.tagName)
                  \/ InGenerators(loaded[a], call.tagName)

\* C5, amended: a delete, or a rename to another name, returns the metadata of an
\* asset, once, if and only if the tag occurs in a region, a label or a generator
\* binding of its loaded metadata; a rename to the same name returns it if and only
\* if the tag is the tag name of one of its generators.
C5_ReturnedIffTagFound ==
    IsPass =>
        \A a \in DOMAIN project :
            /\ Cardinality(ReturnedFor(a)) <= 1
            /\ ReturnedFor(a) # {} <=>
                  \/ NameChanges /\ InRegions(loaded[a], call.tagName)
                  \/ NameChanges /\ InLabels(loaded[a], call.tagName)
                  \/ InGenerators(loaded[a], call.tagName)

\* a delete over two assets that returned one for its generator alone and dropped
\* the other
C5_Witness ==
    /\ call.op = "delete"
    /\ \E a, b \in DOMAIN project :
          /\ ReturnedFor(a) # {} /\ ReturnedFor(b) = {}
          /\ InGenerators(loaded[a], call.tagName)
          /\ ~InRegions(loaded[a], call.tagName) /\ ~InLabels(loaded[a], call.tagName)

---------------------------------------------------------------------------
(* Saving, and what stays in storage *)

SavedLabelFile == getLabelFilename(call.metadata.asset)
SavedGeneratorFile == getGeneratorFilename(call.metadata.asset)

SaveWritesGenerators ==
    /\ outcome.exc = "none"
    /\ Truthy(call.metadata.generators) \/ Truthy(call.metadata.generatorSettings)
       => files[SavedGeneratorFile] =
             JSONstringify([k |-> "object", generators |-> call.metadata.generators,
                            generatorSettings |-> call.metadata.generatorSettings,
                            regions |-> Undefined])
    /\ ~(Truthy(call.metadata.generators) \/ Truthy(call.metadata.generatorSettings))
       => files[SavedGeneratorFile] = call.before[SavedGeneratorFile]
    /\ \A i \in 1..Len(storageOps) :
          storageOps[i].op = "deleteFile" => storageOps[i].name = SavedLabelFile
\* what save does to the label file of a Tagged asset
SaveWritesLabels ==
    call.metadata.asset.state = Tagged /\ Truthy(call.metadata.labelData)
    => files[SavedLabelFile] = [t |-> "json", v |-> call.metadata.labelData]

\* C9 as stated: after save of an asset that is not Tagged the label file does not
\* exist, and save returns even if the delete fails; after save of a Tagged asset
\* with label data the label file holds the serialized label data; the generator
\* file is written whenever generators or generatorSettings is present and is never
\* deleted.
C9_SaveLeavesNoLabelFile ==
    call.op = "save" =>
        /\ SaveWritesGenerators
        /\ SaveWritesLabels
        /\ call.metadata.asset.state # Tagged => files[SavedLabelFile].t = "missing"

\* C9, amended: save of an asset that is not Tagged issues a delete of the label file
\* and returns whether or not the delete succeeds; afterwards the label file does not
\* exist if the delete succeeded or the file was missing already, and is as it was
\* if the delete failed.  The rest as stated.
C9_SaveDeletesOrWritesLabelFile ==
    call.op = "save" =>
        /\ SaveWritesGenerators
        /\ SaveWritesLabels
        /\ call.metadata.asset.state # Tagged =>
              /\ storageOps # <<>>
              /\ storageOps[1].op = "deleteFile" /\ storageOps[1].name = SavedLabelFile
              /\ storageOps[1].exc = "none" \/ call.before[SavedLabelFile].t = "missing"
                 => files[SavedLabelFile].t = "missing"
              /\ storageOps[1].exc # "none"
                 => files[SavedLabelFile] = call.before[SavedLabelFile]

\* a save of an asset that is not Tagged whose delete failed on a label file that
\* exists, with labels and generators in the metadata
C9_Witness ==
    /\ call.op = "save"
    /\ call.metadata.asset.state # Tagged
    /\ LabelsIn(call.metadata) # <<>>
    /\ Truthy(call.metadata.generators)
    /\ storageOps[1].exc # "none"
    /\ call.before[SavedLabelFile].t = "json"
    /\ files[SavedLabelFile] = call.before[SavedLabelFile]

\* C10: a delete or rename issues no write and no delete to the storage backend: the
\* stored documents are after the pass what they were before it.
C10_PassesDoNotPersist ==
    [][call'.op \in {"delete", "update"} => files' = files /\ storageOps' = <<>>]_vars

\* a delete returned a metadata without the label while the stored label document
\* still holds it
C10_Witness ==
    /\ call.op = "delete"
    /\ \E m \in Produced :
          /\ ~InLabels(m, call.tagName)
          /\ files[getLabelFilename(m.asset)].t = "json"
          /\ \E i \in 1..Len(files[getLabelFilename(m.asset)].v.labels.items) :
                files[getLabelFilename(m.asset)].v.labels.items[i].label = call.tagName

---------------------------------------------------------------------------
(* Resolving the format *)

\* the extension of the file name resolved, in lower case
NominalExtension ==
    LET name == IF call.fileName.k = "text" THEN call.fileName.s
                ELSE AfterLast(call.filePath, {"/", "\\"})
    IN  toLowerCase(TextOf(BeforeFirst(AfterLast(name, {"."}), {"?", "#"})))
\* the types whose signature the first bytes of the file match
Sniffed ==
    {imageMimes[i].types : i \in {i \in 1..Len(imageMimes) :
        \A j \in 1..Len(imageMimes[i].pattern) :
            \/ imageMimes[i].pattern[j] = 0
            \/ /\ j <= Len(blobs[call.filePath])
               /\ blobs[call.filePath][j] = imageMimes[i].pattern[j]}}

\* C8: when the extension is a recognized one and the bytes match no signature, the
\* asset is returned with the extension as its format and the type of that
\* extension; the format is another one only when the bytes match a signature that
\* does not include the extension.
C8_UnmatchedSniffKeepsExtension ==
    call.op = "resolve" /\ NominalExtension \in supportedImageFormats =>
        /\ Sniffed = {} =>
              /\ outcome.exc = "none"
              /\ outcome.val.format = Str(NominalExtension)
              /\ outcome.val.type =
                    CASE NominalExtension \in {"jpg", "jpeg", "png", "bmp"} -> Image
                      [] NominalExtension \in {"tif", "tiff"} -> TIFF
                      [] NominalExtension = "pdf" -> PDF
                      [] OTHER -> Unknown
        /\ outcome.exc = "none" /\ outcome.val.format # Str(NominalExtension) =>
              \E types \in Sniffed : NominalExtension \notin SeqToSet(types)

---------------------------------------------------------------------------
(* A pass over several assets at once *)

\* the callbacks of the pass under way that have been given their metadata
Awaited == {a \in DOMAIN project : tasks[a].pc \in {"transform", "done"}}
\* the pass has gathered its results
Gathered ==
    /\ call.op \in {"delete", "update"}
    /\ outcome.kind = "list"
    /\ \A a \in DOMAIN project : tasks[a].pc = "idle"

\* C11: under every interleaving of the reads of a pass over several assets, the
\* metadata of an asset is transformed only when both its label document and its
\* generator document have been read, and the pass returns what it returns when the
\* assets are processed one after another: the result for an asset depends on that
\* asset's documents alone.
C11_InterleavedPassAsSequential ==
    /\ \A a \in Awaited : loaded[a] = getAssetMetadata(files, project[a]).val
    /\ \A a \in DOMAIN project :
          tasks[a].pc = "done" =>
              LET u == updateTagInAssetMetadata(getAssetMetadata(files, project[a]).val,
                                                call.tagName, call)
              IN  /\ tasks[a].metadata = u.assetMetadata
                  /\ tasks[a].isUpdated = u.isUpdated
    /\ Gathered => outcome.val = getUpdatedAssets(files, project, call.tagName, call)

\* the callback of the second asset has transformed and changed its metadata, which
\* has labels and generators, while the first asset still waits for its generator
\* file
C11_Witness ==
    /\ tasks[AssetOrder[1]].pc = "readGenerators"
    /\ tasks[AssetOrder[2]].pc = "done"
    /\ tasks[AssetOrder[2]].isUpdated
    /\ LabelsIn(loaded[AssetOrder[2]]) # <<>>
    /\ loaded[AssetOrder[2]].generators.items # <<>>
    /\ tasks[AssetOrder[2]].metadata # loaded[AssetOrder[2]]

---------------------------------------------------------------------------
(* Label names through the passes *)

\* the label document stored for every asset of the project is valid, or there is none
StoredLabelsValid ==
    \A a \in DOMAIN project :
        LET text == files[getLabelFilename(project[a])]
        IN  \/ text.t = "missing"
            \/ text.t = "json" /\ text.v.k = "object" /\ ValidLabelData(text.v)

\* the notifications of a load of the asset of m that follows a save of m
ToastsOfLoadAfterSave(m) ==
    SeqToSet(getAssetMetadata(save(files, m, TRUE).store, m.asset).toasts)

\* C12: from valid stored label documents, the label names of every label data that
\* is not null and that a load, a delete or a rename produces are non-empty and
\* pairwise distinct, also after a rename to a name that another label of the asset
\* bears; so a load that follows the save of a returned metadata does not reject the
\* label document for a duplicate name.
C12_LabelNamesStayDistinct ==
    StoredLabelsValid =>
        \A m \in Produced :
            Truthy(m.labelData) =>
                /\ NoBlankName(m.labelData)
                /\ DistinctNames(m.labelData)
                /\ Toast("error", "duplicateFieldKeyInLabelsFile")
                      \notin ToastsOfLoadAfterSave(m)

====
